---------------------------- MODULE Spec2Model ----------------------------
(***************************************************************************)
(* A model of the Localizer library (src/.src/include/Localizer.h): the    *)
(* translation table store, file ingestion and flattening, the change      *)
(* watcher, the resolver and the placeholder engine.                       *)
(*                                                                         *)
(* Strings.  A std::string is a sequence of symbols.  Each symbol stands   *)
(* for a fixed, non-empty character string and no symbol is a prefix of    *)
(* another, so concatenation (\o), equality and search on symbol sequences *)
(* are those of the character strings they stand for.  "[Missing:" is the  *)
(* two symbols "[" and "Missing:".                                         *)
(***************************************************************************)
EXTENDS Integers, Sequences, FiniteSets, TLC

VARIABLES
    \* ---- Localizer's static data (Localizer.h 224-233) ----
    currentLocale,    \* std::string
    translations,     \* locale -> (key -> text)
    jsons,            \* std::vector<path>, in order of first load
    fileTimestamps,   \* path -> file_time_type
    debugOptions,     \* DebugOptions
    errorCallback,    \* TRUE iff a callback is registered
    \* ---- the lock and the caller ----
    mutex,            \* "free", "shared" or "exclusive": the std::shared_mutex
                      \* of getMutex()
    relock,           \* what this build does when a thread locks a mutex it owns
    call,             \* the last step: a public call and how it ended (the
                      \* loadFromFile calls it made, how many of them while
                      \* it held the lock, what it reported), or a change
                      \* the environment made to a file
    threads,          \* thread -> where it is in its call, when several
                      \* threads call at once
    \* ---- the file system ----
    fs,               \* path -> [kind, doc, mtime]
    writes,           \* how many times the environment has changed a file
    everStored,       \* history: the locales a load has stored a key for
    \* ---- flattenJsonIterative's locals (one run of the work-list loop) ----
    root, stack, out, flpc,
    \* ---- applyPlaceholders' locals (one run of the scanning loop) ----
    text, params, pos, result, phpc

locVars == <<currentLocale, translations, jsons, fileTimestamps, debugOptions,
             errorCallback, mutex, relock, call, fs, writes, everStored>>
thVars  == <<threads>>
flVars  == <<root, stack, out, flpc>>
phVars  == <<text, params, pos, result, phpc>>
vars    == <<currentLocale, translations, jsons, fileTimestamps, debugOptions,
             errorCallback, mutex, relock, call, fs, writes, everStored,
             threads, root, stack, out, flpc, text, params, pos, result, phpc>>

----------------------------------------------------------------------------
(* Strings and maps *)

EmptyStr == <<>>

\* std::unordered_map: a function on its set of keys.
EmptyMap == <<>>

Contains(m, k) == k \in DOMAIN m

\* m[k] = v of std::unordered_map: inserts k or overwrites its value.
PutKeepsOld(m, k, v) ==
    [x \in (DOMAIN m) \cup {k} |-> IF x \in DOMAIN m THEN m[x] ELSE v]

Put(m, k, v) ==
    [x \in (DOMAIN m) \cup {k} |-> IF x = k THEN v ELSE m[x]]

\* LOC_NAMESPACE_SEPARATOR, LOC_DEFAULT_LOCALE
Separator == <<".">>
DEFAULT_LOCALE == <<"en">>

----------------------------------------------------------------------------
(* JSON values as nlohmann::json holds them.  An object's members are kept *)
(* sorted by name (std::map); an array's elements are its kids, unnamed.   *)

JStr(v)     == [t |-> "str",  s |-> v,        kids |-> <<>>]
JNum        == [t |-> "num",  s |-> EmptyStr, kids |-> <<>>]
JNull       == [t |-> "null", s |-> EmptyStr, kids |-> <<>>]
JObj(kids)  == [t |-> "obj",  s |-> EmptyStr, kids |-> kids]
JArr(elems) == [t |-> "arr",  s |-> EmptyStr,
                kids |-> [i \in 1..Len(elems) |-> <<EmptyStr, elems[i]>>]]

\* std::to_string of an array index
IndexStr(i) == << <<"0", "1", "2", "3", "4", "5", "6", "7", "8", "9">>[i + 1] >>

\* json::items(): the members of an object under their names, the elements
\* of an array under their indices, nothing for null, and a primitive value
\* itself under the empty name.
Items(node) ==
    CASE node.t = "obj"  -> node.kids
      [] node.t = "arr"  -> [i \in 1..Len(node.kids) |->
                                <<IndexStr(i - 1), node.kids[i][2]>>]
      [] node.t = "null" -> <<>>
      [] OTHER           -> << <<EmptyStr, node>> >>

\* fullKey of flattenJsonIterative (line 214)
FullKey(prefix, key) ==
    IF prefix = EmptyStr THEN key ELSE prefix \o Separator \o key

\* The for loop over node->items(), from item i on, with the stack and the
\* output map as they stand.
RECURSIVE VisitItems(_, _, _, _, _)
VisitItems(items, i, prefix, stk, o) ==
    IF i > Len(items) THEN [stack |-> stk, out |-> o]
    ELSE LET key     == items[i][1]
             value   == items[i][2]
             fullKey == FullKey(prefix, key)
         IN  IF value.t = "obj"
             THEN VisitItems(items, i + 1, prefix,
                             Append(stk, [json |-> value, prefix |-> fullKey]), o)
             ELSE IF value.t = "str"
             THEN VisitItems(items, i + 1, prefix, stk, Put(o, fullKey, value.s))
             ELSE VisitItems(items, i + 1, prefix, stk, o)

\* One turn of the while loop: pop the back of the stack and visit its items.
FlattenStep(stk, o) ==
    LET node == stk[Len(stk)]
    IN  VisitItems(Items(node.json), 1, node.prefix,
                   SubSeq(stk, 1, Len(stk) - 1), o)

RECURSIVE FlattenLoop(_, _)
FlattenLoop(stk, o) ==
    IF stk = <<>> THEN o
    ELSE LET r == FlattenStep(stk, o) IN FlattenLoop(r.stack, r.out)

flattenJsonIterative(rootNode, basePrefix, o) ==
    FlattenLoop(<<[json |-> rootNode, prefix |-> basePrefix]>>, o)


----------------------------------------------------------------------------
(* Paths and the file system *)

\* Position of the last occurrence of symbol c in s, 0 if there is none.
LastIndexOf(s, c) ==
    LET I == {i \in 1..Len(s) : s[i] = c}
    IN  IF I = {} THEN 0 ELSE CHOOSE i \in I : \A j \in I : j <= i

\* std::filesystem::path::filename, stem and extension
Filename(p) == SubSeq(p, LastIndexOf(p, "/") + 1, Len(p))

Stem(p) ==
    LET f == Filename(p)
        d == LastIndexOf(f, ".")
    IN  IF d <= 1 THEN f ELSE SubSeq(f, 1, d - 1)

Extension(p) ==
    LET f == Filename(p)
        d == LastIndexOf(f, ".")
    IN  IF d <= 1 THEN EmptyStr ELSE SubSeq(f, d, Len(f))

ParentPath(p) ==
    LET d == LastIndexOf(p, "/")
    IN  IF d = 0 THEN EmptyStr ELSE SubSeq(p, 1, d - 1)

IsPrefix(a, b) == Len(a) <= Len(b) /\ SubSeq(b, 1, Len(a)) = a

\* The files of the model: two language files with the same stem, the second
\* in a subdirectory, and a file that is not a .json file.
UiJson    == <<"langs", "/", "ui", ".", "json">>
SubUiJson == <<"langs", "/", "sub", "/", "ui", ".", "json">>
UiTxt     == <<"langs", "/", "ui", ".", "txt">>
MenuJson  == <<"langs", "/", "menu", ".", "json">>
Paths     == {UiJson, SubUiJson, UiTxt, MenuJson}
JsonPaths == {UiJson, SubUiJson}

LangsDir   == <<"langs">>
MissingDir == <<"nodir">>
Dirs       == {LangsDir, <<"langs", "/", "sub">>}
Folders    == {LangsDir, MissingDir}

\* The documents a file may hold.
DocA == JObj(<< << <<"en">>, JObj(<< << <<"a">>, JStr(<<"Play">>) >>,
                                     << <<"b">>, JStr(<<"Exit">>) >>,
                                     << <<"n">>, JNum >> >>) >>,
                << <<"fr">>, JObj(<< << <<"a">>, JStr(<<"Jouer">>) >> >>) >> >>)

DocB == JObj(<< << <<"en">>, JObj(<< << <<"a">>, JStr(<<"Start">>) >> >>) >>,
                << <<"fr">>, JObj(<< << <<"m">>,
                                        JObj(<< << <<"c">>, JStr(<<"Menu">>) >> >>) >> >>) >> >>)

DocC == JObj(<< << <<"de">>, JObj(<< << <<"a">>, JStr(<<"Spiel">>) >> >>) >>,
                << <<"en">>, JObj(<< << <<"a">>, JStr(<<"Go">>) >> >>) >>,
                << <<"it">>, JObj(<<>>) >> >>)

\* langs/menu.json, and what it holds once "a" is deleted from it
DocM == JObj(<< << <<"en">>, JObj(<< << <<"a">>, JStr(<<"Open">>) >> >>) >>,
                << <<"de">>, JObj(<< << <<"a">>, JStr(<<"Auf">>) >> >>) >> >>)

DocM2 == JObj(<< << <<"en">>, JObj(<< << <<"b">>, JStr(<<"Close">>) >> >>) >> >>)

Docs == {DocA, DocB, DocC, DocM, DocM2}

Absent      == [kind |-> "absent",  doc |-> JNull, mtime |-> 0]
Garbage(t)  == [kind |-> "garbage", doc |-> JNull, mtime |-> t]
JsonFile(d, t) == [kind |-> "json", doc |-> d, mtime |-> t]

\* std::filesystem::exists, last_write_time; std::ifstream::is_open
Exists(path) == path \in Paths /\ fs[path].kind # "absent"
LastWriteTime(path) == fs[path].mtime
IsOpen(path) == Exists(path)
\* file >> data throws json::parse_error on a stream that is not open or
\* does not hold a JSON text
Decodes(path) == path \in Paths /\ fs[path].kind = "json"

----------------------------------------------------------------------------
(* Localizer's data as one record, so that a call's steps can be composed *)

Data == [translations   |-> translations,
         jsons          |-> jsons,
         fileTimestamps |-> fileTimestamps,
         reports        |-> <<>>,
         loads          |-> 0,
         relocks        |-> 0]

Report(S, code) ==
    IF errorCallback THEN [S EXCEPT !.reports = Append(@, code)] ELSE S

\* translations[lang][namespacedKey] = value, for every pair of flatMap
\* (lines 279-283); keys of flatMap are distinct, so the order is immaterial.
RECURSIVE MergeFlat(_, _, _, _)
MergeFlat(tr, lang, ns, flatMap) ==
    IF DOMAIN flatMap = {} THEN tr
    ELSE LET key == CHOOSE k \in DOMAIN flatMap : TRUE
             namespacedKey == ns \o Separator \o key
             tbl  == IF Contains(tr, lang) THEN tr[lang] ELSE EmptyMap
             rest == [k \in (DOMAIN flatMap) \ {key} |-> flatMap[k]]
         IN  MergeFlat(Put(tr, lang, Put(tbl, namespacedKey, flatMap[key])),
                       lang, ns, rest)

\* for (auto &[lang, root] : data.items()), from item i on (lines 275-284)
RECURSIVE MergeLangsReplacesTable(_, _, _, _)
MergeLangsReplacesTable(tr, items, i, ns) ==
    IF i > Len(items) THEN tr
    ELSE LET lang    == items[i][1]
             flatMap == flattenJsonIterative(items[i][2], EmptyStr, EmptyMap)
             tr0     == [l \in (DOMAIN tr) \ {lang} |-> tr[l]]
         IN  MergeLangsReplacesTable(MergeFlat(tr0, lang, ns, flatMap),
                                     items, i + 1, ns)

RECURSIVE MergeLangs(_, _, _, _)
MergeLangs(tr, items, i, ns) ==
    IF i > Len(items) THEN tr
    ELSE LET lang    == items[i][1]
             flatMap == flattenJsonIterative(items[i][2], EmptyStr, EmptyMap)
         IN  MergeLangs(MergeFlat(tr, lang, ns, flatMap), items, i + 1, ns)

\* jsons.push_back(p) unless p is already there (lines 272-273)
Register(js, p) ==
    IF \E i \in 1..Len(js) : js[i] = p THEN js ELSE Append(js, p)

\* loadFromFile below its lock (lines 252-284): the data after the call and
\* whether it returned or threw.
loadFromFileBodyRegistersFirst(S, path) ==
    LET S0 == [S EXCEPT !.loads = @ + 1]
        S1 == IF IsOpen(path) THEN S0 ELSE Report(S0, 0)
        S2 == [S1 EXCEPT !.fileTimestamps = Put(@, path, LastWriteTime(path)),
                         !.jsons          = Register(@, path)]
    IN  IF ~Decodes(path)
        THEN [data |-> S2, outcome |-> "threw"]
        ELSE [data |-> [S2 EXCEPT
                  !.translations   = MergeLangs(@, Items(fs[path].doc), 1, Stem(path))],
              outcome |-> "returned"]

loadFromFileBody(S, path) ==
    LET S0 == [S EXCEPT !.loads = @ + 1]
        S1 == IF IsOpen(path) THEN S0 ELSE Report(S0, 0)
    IN  IF ~Decodes(path)
        THEN [data |-> S1, outcome |-> "threw"]
        ELSE [data |-> [S1 EXCEPT
                  !.fileTimestamps = Put(@, path, LastWriteTime(path)),
                  !.jsons          = Register(@, path),
                  !.translations   = MergeLangs(@, Items(fs[path].doc), 1, Stem(path))],
              outcome |-> "returned"]

\* What a build does when loadFromFile locks the std::shared_mutex that the
\* calling thread already owns (undefined behaviour): the thread blocks for
\* ever, lock() throws std::system_error, or the lock lets its owner in.
RelockOutcomes == {"blocks", "throws", "reenters"}

\* loadFromFile called by an operation that holds the write lock
\* (lines 347 and 376): LOC_WRITE_LOCK on line 251 locks it again.
NestedLoad(S, path) ==
    LET S0 == [S EXCEPT !.relocks = @ + 1]
    IN  CASE relock = "blocks"   ->
                 [data |-> [S0 EXCEPT !.loads = @ + 1], outcome |-> "blocked"]
          [] relock = "throws"   ->
                 [data |-> [S0 EXCEPT !.loads = @ + 1], outcome |-> "threw"]
          [] relock = "reenters" -> loadFromFileBody(S0, path)


----------------------------------------------------------------------------
(* Bounds and inputs of the calls *)

\* How many times the environment writes or deletes a file.
MaxWrites == 1

Locales == {<<"en">>, <<"fr">>, <<"it">>}

Keys == {<<"ui", ".", "a">>, <<"ui", ".", "b">>, <<"ui", ".", "zz">>}

\* LOC_COLOR_DEFAULT, LOC_COLOR_RESET and the cyan of main.cpp
ColorDefault == <<"ESC[32m">>
ColorReset   == <<"ESC[0m">>
ColorCyan    == <<"ESC[36m">>

\* DebugOptions(): the default member values (lines 140-144)
DefaultDebugOptions ==
    [enabled |-> FALSE, coloredOutput |-> TRUE, keyColor |-> ColorDefault,
     resetColor |-> ColorReset, prefix |-> EmptyStr]

\* The options main.cpp sets (lines 88-93), and the same without colours.
DebugChoices ==
    {DefaultDebugOptions,
     [enabled |-> TRUE, coloredOutput |-> TRUE, keyColor |-> ColorCyan,
      resetColor |-> ColorReset, prefix |-> <<"[", "DBG", "]", " ">>],
     [enabled |-> TRUE, coloredOutput |-> FALSE, keyColor |-> ColorCyan,
      resetColor |-> ColorReset, prefix |-> <<"[", "DBG", "]", " ">>]}

\* All orders in which an unordered container or a directory may be iterated.
Perms(S) ==
    {f \in [1..Cardinality(S) -> S] :
        \A i, j \in 1..Cardinality(S) : i # j => f[i] # f[j]}

----------------------------------------------------------------------------
(* The public operations, as functions of Localizer's data *)

\* tryLoad over the directory's entries in the order given (lines 301-330)
RECURSIVE DirLoopStopsAtFailure(_, _, _)
DirLoopStopsAtFailure(S, order, i) ==
    IF i > Len(order) THEN S
    ELSE IF Extension(order[i]) = <<".", "json">>
         THEN LET r == loadFromFileBody(S, order[i])
              IN  IF r.outcome = "threw"
                  THEN Report(r.data, 1)
                  ELSE DirLoopStopsAtFailure(r.data, order, i + 1)
         ELSE DirLoopStopsAtFailure(S, order, i + 1)

RECURSIVE DirLoop(_, _, _)
DirLoop(S, order, i) ==
    IF i > Len(order) THEN S
    ELSE IF Extension(order[i]) = <<".", "json">>
         THEN LET r == loadFromFileBody(S, order[i])
              IN  IF r.outcome = "threw"
                  THEN DirLoop(Report(r.data, 1), order, i + 1)
                  ELSE DirLoop(r.data, order, i + 1)
         ELSE DirLoop(S, order, i + 1)

\* The regular files a directory_iterator or recursive_directory_iterator
\* of folderPath yields.
Entries(folderPath, recursive) ==
    {p \in Paths : /\ Exists(p)
                   /\ IF recursive THEN IsPrefix(folderPath \o <<"/">>, p)
                                   ELSE ParentPath(p) = folderPath}

\* for (const auto &json : jsons) of reloadAllJsons (lines 343-358)
RECURSIVE ReloadLoop(_, _, _)
ReloadLoop(S, js, i) ==
    IF i > Len(js) THEN [data |-> S, outcome |-> "returned"]
    ELSE LET r == NestedLoad(S, js[i])
         IN  CASE r.outcome = "blocked"  -> r
               [] r.outcome = "threw"    -> ReloadLoop(Report(r.data, 2), js, i + 1)
               [] r.outcome = "returned" -> ReloadLoop(r.data, js, i + 1)

\* for (auto &[path, oldTime] : fileTimestamps) of checkForJsonChanges, in
\* the order given (lines 367-378)
RECURSIVE CheckLoopNoCompare(_, _, _)
CheckLoopNoCompare(S, order, i) ==
    IF i > Len(order) THEN [data |-> S, outcome |-> "returned"]
    ELSE LET path == order[i]
         IN  IF ~Exists(path) THEN CheckLoopNoCompare(S, order, i + 1)
             ELSE LET r == NestedLoad(S, path)
                  IN  IF r.outcome = "returned"
                      THEN CheckLoopNoCompare(r.data, order, i + 1)
                      ELSE r

RECURSIVE CheckLoopStoresAfterLoad(_, _, _)
CheckLoopStoresAfterLoad(S, order, i) ==
    IF i > Len(order) THEN [data |-> S, outcome |-> "returned"]
    ELSE LET path == order[i]
         IN  IF ~Exists(path) THEN CheckLoopStoresAfterLoad(S, order, i + 1)
             ELSE LET newTime == LastWriteTime(path)
                  IN  IF newTime # S.fileTimestamps[path]
                      THEN LET r == NestedLoad(S, path)
                           IN  IF r.outcome = "returned"
                               THEN CheckLoopStoresAfterLoad(
                                        [r.data EXCEPT !.fileTimestamps[path] = newTime],
                                        order, i + 1)
                               ELSE r
                      ELSE CheckLoopStoresAfterLoad(S, order, i + 1)

RECURSIVE CheckLoop(_, _, _)
CheckLoop(S, order, i) ==
    IF i > Len(order) THEN [data |-> S, outcome |-> "returned"]
    ELSE LET path == order[i]
         IN  IF ~Exists(path) THEN CheckLoop(S, order, i + 1)
             ELSE LET newTime == LastWriteTime(path)
                  IN  IF newTime # S.fileTimestamps[path]
                      THEN LET S1 == [S EXCEPT !.fileTimestamps[path] = newTime]
                               r  == NestedLoad(S1, path)
                           IN  IF r.outcome = "returned"
                               THEN CheckLoop(r.data, order, i + 1)
                               ELSE r
                      ELSE CheckLoop(S, order, i + 1)

\* translations[locale] of std::unordered_map: inserts an empty table for a
\* locale that has none (lines 426-431, 448-449).
Subscript(tr, locale) ==
    IF Contains(tr, locale) THEN tr ELSE Put(tr, locale, EmptyMap)

\* The debug prefix of translate (lines 416-424)
DebugPrefixColourOnly(dbg, key) ==
    IF dbg.enabled
    THEN IF dbg.coloredOutput
         THEN dbg.keyColor \o <<"[">> \o key \o <<"]">> \o dbg.resetColor \o <<" ">>
         ELSE dbg.prefix \o <<"[">> \o key \o <<"]", " ">>
    ELSE EmptyStr

DebugPrefix(dbg, key) ==
    IF dbg.enabled
    THEN IF dbg.coloredOutput
         THEN dbg.prefix \o dbg.keyColor \o <<"[">> \o key \o <<"]">>
                  \o dbg.resetColor \o <<" ">>
         ELSE dbg.prefix \o <<"[">> \o key \o <<"]", " ">>
    ELSE EmptyStr

\* translate (lines 412-438): the returned text and the table store after
\* the two subscripts.
translateDefaultFirst(tr, locale, dbg, key) ==
    LET prefix  == DebugPrefix(dbg, key)
        tr1     == Subscript(tr, DEFAULT_LOCALE)
        tr2     == Subscript(tr1, locale)
        missing == <<"[", "Missing:">> \o key \o <<"]">>
    IN  IF Contains(tr1[DEFAULT_LOCALE], key)
        THEN [text |-> prefix \o tr1[DEFAULT_LOCALE][key], translations |-> tr1]
        ELSE IF Contains(tr2[locale], key)
        THEN [text |-> prefix \o tr2[locale][key], translations |-> tr2]
        ELSE IF dbg.enabled /\ dbg.coloredOutput
        THEN [text |-> dbg.keyColor \o missing \o dbg.resetColor, translations |-> tr2]
        ELSE [text |-> missing, translations |-> tr2]

translateMissingPrefixed(tr, locale, dbg, key) ==
    LET prefix  == DebugPrefix(dbg, key)
        tr1     == Subscript(tr, locale)
        tr2     == Subscript(tr1, DEFAULT_LOCALE)
        missing == <<"[", "Missing:">> \o key \o <<"]">>
    IN  IF Contains(tr1[locale], key)
        THEN [text |-> prefix \o tr1[locale][key], translations |-> tr1]
        ELSE IF Contains(tr2[DEFAULT_LOCALE], key)
        THEN [text |-> prefix \o tr2[DEFAULT_LOCALE][key], translations |-> tr2]
        ELSE [text |-> prefix \o missing, translations |-> tr2]

translate(tr, locale, dbg, key) ==
    LET prefix  == DebugPrefix(dbg, key)
        tr1     == Subscript(tr, locale)
        tr2     == Subscript(tr1, DEFAULT_LOCALE)
        missing == <<"[", "Missing:">> \o key \o <<"]">>
    IN  IF Contains(tr1[locale], key)
        THEN [text |-> prefix \o tr1[locale][key], translations |-> tr1]
        ELSE IF Contains(tr2[DEFAULT_LOCALE], key)
        THEN [text |-> prefix \o tr2[DEFAULT_LOCALE][key], translations |-> tr2]
        ELSE IF dbg.enabled /\ dbg.coloredOutput
        THEN [text |-> dbg.keyColor \o missing \o dbg.resetColor, translations |-> tr2]
        ELSE [text |-> missing, translations |-> tr2]

\* hasKey (lines 445-450)
hasKeyActiveOnly(tr, locale, key) ==
    LET tr1 == Subscript(tr, locale)
    IN  [bool |-> Contains(tr1[locale], key), translations |-> tr1]

hasKey(tr, locale, key) ==
    LET tr1 == Subscript(tr, locale)
        tr2 == Subscript(tr1, DEFAULT_LOCALE)
    IN  IF Contains(tr1[locale], key)
        THEN [bool |-> TRUE, translations |-> tr1]
        ELSE [bool |-> Contains(tr2[DEFAULT_LOCALE], key), translations |-> tr2]


\* setLocale (lines 386-395)
setLocaleUnchecked(tr, cur, locale) ==
    [bool |-> Contains(tr, locale), currentLocale |-> locale]

setLocale(tr, cur, locale) ==
    IF Contains(tr, locale)
    THEN [bool |-> TRUE,  currentLocale |-> locale]
    ELSE [bool |-> FALSE, currentLocale |-> cur]

----------------------------------------------------------------------------
(* The caller: one thread that makes one public call after another *)

NoCall ==
    [op |-> "none", arg |-> EmptyStr, flag |-> FALSE, outcome |-> "returned",
     text |-> EmptyStr, bool |-> FALSE, loads |-> 0, relocks |-> 0,
     reports |-> <<>>]

\* The threads that call at once, and a thread that is in no call.
Threads == {"t1", "t2"}

Idle ==
    [pc |-> "idle", op |-> "none", arg |-> EmptyStr, flag |-> FALSE,
     holds |-> "none", order |-> <<>>, i |-> 0, merged |-> 0]

\* The caller is not stuck inside a call.
Ready == call.outcome # "blocked"

\* The locales whose table holds a key.
Stored(tr) == {l \in DOMAIN tr : DOMAIN tr[l] # {}}

\* Localizer's data become S; the lock is released unless the call hangs.
Commit(S, outcome) ==
    /\ translations'   = S.translations
    /\ jsons'          = S.jsons
    /\ fileTimestamps' = S.fileTimestamps
    /\ everStored'     = everStored \cup Stored(S.translations)
    /\ mutex'          = IF outcome = "blocked" THEN "exclusive" ELSE "free"

SetErrorCallback(registered) ==
    /\ Ready
    /\ errorCallback' = registered
    /\ call' = [NoCall EXCEPT !.op = "setErrorCallback", !.flag = registered]
    /\ UNCHANGED <<currentLocale, translations, jsons, fileTimestamps,
                   debugOptions, mutex, relock, fs, writes, everStored>>
    /\ UNCHANGED <<flVars, phVars, thVars>>

LoadFromFile(path) ==
    /\ Ready
    /\ LET r == loadFromFileBody(Data, path)
       IN  /\ Commit(r.data, r.outcome)
           /\ call' = [NoCall EXCEPT !.op = "loadFromFile", !.arg = path,
                           !.outcome = r.outcome, !.loads = r.data.loads,
                           !.reports = r.data.reports]
    /\ UNCHANGED <<currentLocale, debugOptions, errorCallback, relock, fs, writes>>
    /\ UNCHANGED <<flVars, phVars, thVars>>

LoadFromDirectory(folderPath, recursive) ==
    /\ Ready
    /\ IF folderPath \notin Dirs
       THEN /\ call' = [NoCall EXCEPT !.op = "loadFromDirectory", !.arg = folderPath,
                            !.flag = recursive, !.outcome = "threw"]
            /\ UNCHANGED <<translations, jsons, fileTimestamps, everStored, mutex>>
       ELSE \E order \in Perms(Entries(folderPath, recursive)) :
                LET S == DirLoop(Data, order, 1)
                IN  /\ Commit(S, "returned")
                    /\ call' = [NoCall EXCEPT !.op = "loadFromDirectory",
                                    !.arg = folderPath, !.flag = recursive,
                                    !.loads = S.loads, !.reports = S.reports]
    /\ UNCHANGED <<currentLocale, debugOptions, errorCallback, relock, fs, writes>>
    /\ UNCHANGED <<flVars, phVars, thVars>>

ReloadAllJsons(clearBefore) ==
    /\ Ready
    /\ LET S0 == IF clearBefore THEN [Data EXCEPT !.translations = EmptyMap] ELSE Data
           r  == ReloadLoop(S0, jsons, 1)
       IN  /\ Commit(r.data, r.outcome)
           /\ call' = [NoCall EXCEPT !.op = "reloadAllJsons", !.flag = clearBefore,
                           !.outcome = r.outcome, !.loads = r.data.loads,
                           !.relocks = r.data.relocks,
                           !.reports = r.data.reports]
    /\ UNCHANGED <<currentLocale, debugOptions, errorCallback, relock, fs, writes>>
    /\ UNCHANGED <<flVars, phVars, thVars>>

CheckForJsonChanges ==
    /\ Ready
    /\ \E order \in Perms(DOMAIN fileTimestamps) :
           LET r == CheckLoop(Data, order, 1)
           IN  /\ Commit(r.data, r.outcome)
               /\ call' = [NoCall EXCEPT !.op = "checkForJsonChanges",
                               !.outcome = r.outcome, !.loads = r.data.loads,
                               !.relocks = r.data.relocks,
                               !.reports = r.data.reports]
    /\ UNCHANGED <<currentLocale, debugOptions, errorCallback, relock, fs, writes>>
    /\ UNCHANGED <<flVars, phVars, thVars>>

SetLocale(locale) ==
    /\ Ready
    /\ LET r == setLocale(translations, currentLocale, locale)
       IN  /\ currentLocale' = r.currentLocale
           /\ call' = [NoCall EXCEPT !.op = "setLocale", !.arg = locale,
                           !.bool = r.bool]
    /\ UNCHANGED <<translations, jsons, fileTimestamps, debugOptions, errorCallback,
                   mutex, relock, fs, writes, everStored>>
    /\ UNCHANGED <<flVars, phVars, thVars>>

GetLocale ==
    /\ Ready
    /\ call' = [NoCall EXCEPT !.op = "getLocale", !.text = currentLocale]
    /\ UNCHANGED <<currentLocale, translations, jsons, fileTimestamps, debugOptions,
                   errorCallback, mutex, relock, fs, writes, everStored>>
    /\ UNCHANGED <<flVars, phVars, thVars>>

Translate(key) ==
    /\ Ready
    /\ LET r == translate(translations, currentLocale, debugOptions, key)
       IN  /\ translations' = r.translations
           /\ call' = [NoCall EXCEPT !.op = "translate", !.arg = key,
                           !.text = r.text]
    /\ UNCHANGED <<currentLocale, jsons, fileTimestamps, debugOptions, errorCallback,
                   mutex, relock, fs, writes, everStored>>
    /\ UNCHANGED <<flVars, phVars, thVars>>

HasKey(key) ==
    /\ Ready
    /\ LET r == hasKey(translations, currentLocale, key)
       IN  /\ translations' = r.translations
           /\ call' = [NoCall EXCEPT !.op = "hasKey", !.arg = key, !.bool = r.bool]
    /\ UNCHANGED <<currentLocale, jsons, fileTimestamps, debugOptions, errorCallback,
                   mutex, relock, fs, writes, everStored>>
    /\ UNCHANGED <<flVars, phVars, thVars>>

\* setDebugMode (lines 456-460)
SetDebugMode(debugMode) ==
    /\ Ready
    /\ debugOptions' = [debugOptions EXCEPT !.enabled = debugMode]
    /\ call' = [NoCall EXCEPT !.op = "setDebugMode", !.flag = debugMode]
    /\ UNCHANGED <<currentLocale, translations, jsons, fileTimestamps, errorCallback,
                   mutex, relock, fs, writes, everStored>>
    /\ UNCHANGED <<flVars, phVars, thVars>>

\* setDebugOptions (lines 476-480)
SetDebugOptions(options) ==
    /\ Ready
    /\ debugOptions' = options
    /\ call' = [NoCall EXCEPT !.op = "setDebugOptions", !.flag = options.enabled]
    /\ UNCHANGED <<currentLocale, translations, jsons, fileTimestamps, errorCallback,
                   mutex, relock, fs, writes, everStored>>
    /\ UNCHANGED <<flVars, phVars, thVars>>

\* The environment writes a file (its modification time moves on) or
\* deletes it.
WriteFile(path, kind, doc) ==
    /\ writes < MaxWrites
    /\ writes' = writes + 1
    /\ LET t == writes + 2
       IN  fs' = [fs EXCEPT ![path] =
                      CASE kind = "absent"  -> Absent
                        [] kind = "garbage" -> Garbage(t)
                        [] kind = "json"    -> JsonFile(doc, t)]
    /\ fs'[path] # fs[path]
    /\ call' = [NoCall EXCEPT !.op = "writeFile", !.arg = path]
    /\ UNCHANGED <<currentLocale, translations, jsons, fileTimestamps, debugOptions,
                   errorCallback, mutex, relock, everStored>>
    /\ UNCHANGED <<flVars, phVars, thVars>>

Init ==
    /\ currentLocale = DEFAULT_LOCALE
    /\ translations = EmptyMap
    /\ jsons = <<>>
    /\ fileTimestamps = EmptyMap
    /\ debugOptions = DefaultDebugOptions
    /\ errorCallback = FALSE
    /\ mutex = "free"
    /\ relock \in RelockOutcomes
    /\ call = NoCall
    /\ fs = [p \in Paths |->
                CASE p = UiJson    -> JsonFile(DocA, 1)
                  [] p = SubUiJson -> JsonFile(DocC, 1)
                  [] p = UiTxt     -> JsonFile(DocA, 1)
                  [] OTHER         -> Absent]
    /\ writes = 0
    /\ everStored = {}
    /\ threads = [t \in Threads |-> Idle]
    /\ root = JNull /\ stack = <<>> /\ out = EmptyMap /\ flpc = "idle"
    /\ text = EmptyStr /\ params = EmptyMap /\ pos = 0 /\ result = EmptyStr
    /\ phpc = "idle"

\* The ingestion engine, the change watcher, the locale selection and
\* translate, with a file changing under them.  The debug configuration is
\* read by translate alone and no operation below changes it; the operations
\* that set it, hasKey and getLocale are exercised in SpecResolve.
Next ==
    \/ \E p \in JsonPaths : LoadFromFile(p)
    \/ \E f \in Folders, r \in BOOLEAN : LoadFromDirectory(f, r)
    \/ \E c \in BOOLEAN : ReloadAllJsons(c)
    \/ CheckForJsonChanges
    \/ \E l \in Locales : SetLocale(l)
    \/ \E k \in Keys : Translate(k)
    \/ \E b \in BOOLEAN : SetErrorCallback(b)
    \/ WriteFile(UiJson, "json", DocB)
    \/ \E k \in {"absent", "garbage"} : WriteFile(UiJson, k, JNull)

Spec == Init /\ [][Next]_vars


\* The resolver: loads of the files as they are, the locale selection, the
\* debug configuration and the lookups.
ResolveNext ==
    \/ \E p \in JsonPaths : LoadFromFile(p)
    \/ \E l \in Locales : SetLocale(l)
    \/ GetLocale
    \/ \E k \in Keys : Translate(k)
    \/ \E k \in Keys : HasKey(k)
    \/ \E b \in BOOLEAN : SetDebugMode(b)
    \/ \E o \in DebugChoices : SetDebugOptions(o)

\* No operation of ResolveNext reads relock.
InitResolve ==
    /\ Init
    /\ relock = "throws"

SpecResolve == InitResolve /\ [][ResolveNext]_vars

----------------------------------------------------------------------------
(* Several threads calling at once.  A call is two steps: its lock          *)
(* statement, then its body up to the return, where the scoped lock goes.   *)
(* loadFromDirectory has no lock statement of its own: each loadFromFile it *)
(* calls locks and unlocks.                                                 *)

ReadOps  == {"translate", "hasKey", "getLocale", "isDebugModeOn"}
WriteOps == {"setLocale", "setDebugMode", "loadFromFile"}

ThKeys    == {<<"ui", ".", "a">>}
ThLocales == {<<"fr">>}

\* The mutex once thread t has let go of it.
Released(t) ==
    IF \E u \in Threads \ {t} : threads[u].holds = "shared"
    THEN "shared" ELSE "free"

\* Another thread is inside translate or hasKey, under the shared lock.
Racing(t) ==
    \E u \in Threads \ {t} :
        threads[u].holds = "shared" /\ threads[u].op \in {"translate", "hasKey"}

\* What an insertion of operator[] under the shared lock comes to.  With
\* another thread in the same table store it is a data race (undefined
\* behaviour): the insertion lands, is lost, or the process dies.
RaceOutcomes(t, tr) ==
    IF tr # translations /\ Racing(t)
    THEN {"inserted", "lost", "crashed"}
    ELSE {"inserted"}

\* LOC_READ_LOCK (line 92) of op
ThReadLock(t, op, arg) ==
    /\ op \in ReadOps
    /\ threads[t].pc = "idle"
    /\ mutex # "exclusive"
    /\ mutex' = "shared"
    /\ threads' = [threads EXCEPT ![t] =
                       [Idle EXCEPT !.pc = "locked", !.op = op, !.arg = arg,
                                    !.holds = "shared"]]
    /\ UNCHANGED <<currentLocale, translations, jsons, fileTimestamps, debugOptions,
                   errorCallback, relock, call, fs, writes, everStored>>
    /\ UNCHANGED <<flVars, phVars>>

\* LOC_WRITE_LOCK (line 93) of op
ThWriteLock(t, op, arg, flag) ==
    /\ op \in WriteOps
    /\ threads[t].pc = "idle"
    /\ mutex = "free"
    /\ mutex' = "exclusive"
    /\ threads' = [threads EXCEPT ![t] =
                       [Idle EXCEPT !.pc = "locked", !.op = op, !.arg = arg,
                                    !.flag = flag, !.holds = "exclusive"]]
    /\ UNCHANGED <<currentLocale, translations, jsons, fileTimestamps, debugOptions,
                   errorCallback, relock, call, fs, writes, everStored>>
    /\ UNCHANGED <<flVars, phVars>>

\* The body of thread t's call is over and its lock is released.
ThReturn(t) ==
    /\ threads' = [threads EXCEPT ![t] = Idle]
    /\ mutex' = Released(t)

\* translate or hasKey of thread t is over, the store being tr after its
\* subscripts.
ThReadReturn(t, tr) ==
    \E o \in RaceOutcomes(t, tr) :
        /\ translations' = IF o = "inserted" THEN tr ELSE translations
        /\ IF o = "crashed"
           THEN /\ threads' = [u \in Threads |-> [threads[u] EXCEPT !.pc = "crashed"]]
                /\ mutex' = mutex
           ELSE ThReturn(t)

ThTranslate(t) ==
    /\ threads[t].pc = "locked" /\ threads[t].op = "translate"
    /\ ThReadReturn(t, translate(translations, currentLocale, debugOptions,
                                 threads[t].arg).translations)
    /\ UNCHANGED <<currentLocale, jsons, fileTimestamps, debugOptions,
                   errorCallback, relock, call, fs, writes, everStored>>
    /\ UNCHANGED <<flVars, phVars>>

ThHasKey(t) ==
    /\ threads[t].pc = "locked" /\ threads[t].op = "hasKey"
    /\ ThReadReturn(t, hasKey(translations, currentLocale, threads[t].arg).translations)
    /\ UNCHANGED <<currentLocale, jsons, fileTimestamps, debugOptions,
                   errorCallback, relock, call, fs, writes, everStored>>
    /\ UNCHANGED <<flVars, phVars>>

\* getLocale (lines 401-405)
ThGetLocale(t) ==
    /\ threads[t].pc = "locked" /\ threads[t].op = "getLocale"
    /\ ThReturn(t)
    /\ UNCHANGED <<currentLocale, translations, jsons, fileTimestamps, debugOptions,
                   errorCallback, relock, call, fs, writes, everStored>>
    /\ UNCHANGED <<flVars, phVars>>

\* isDebugModeOn (lines 466-470)
ThIsDebugModeOn(t) ==
    /\ threads[t].pc = "locked" /\ threads[t].op = "isDebugModeOn"
    /\ ThReturn(t)
    /\ UNCHANGED <<currentLocale, translations, jsons, fileTimestamps, debugOptions,
                   errorCallback, relock, call, fs, writes, everStored>>
    /\ UNCHANGED <<flVars, phVars>>

ThSetLocale(t) ==
    /\ threads[t].pc = "locked" /\ threads[t].op = "setLocale"
    /\ currentLocale' = setLocale(translations, currentLocale,
                                  threads[t].arg).currentLocale
    /\ ThReturn(t)
    /\ UNCHANGED <<translations, jsons, fileTimestamps, debugOptions,
                   errorCallback, relock, call, fs, writes, everStored>>
    /\ UNCHANGED <<flVars, phVars>>

ThSetDebugMode(t) ==
    /\ threads[t].pc = "locked" /\ threads[t].op = "setDebugMode"
    /\ debugOptions' = [debugOptions EXCEPT !.enabled = threads[t].flag]
    /\ ThReturn(t)
    /\ UNCHANGED <<currentLocale, translations, jsons, fileTimestamps,
                   errorCallback, relock, call, fs, writes, everStored>>
    /\ UNCHANGED <<flVars, phVars>>

\* loadFromFile below its lock statement, to its return or throw
ThLoadFromFile(t) ==
    /\ threads[t].pc = "locked" /\ threads[t].op = "loadFromFile"
    /\ LET r == loadFromFileBody(Data, threads[t].arg)
       IN  /\ translations'   = r.data.translations
           /\ jsons'          = r.data.jsons
           /\ fileTimestamps' = r.data.fileTimestamps
    /\ ThReturn(t)
    /\ UNCHANGED <<currentLocale, debugOptions, errorCallback, relock, call, fs,
                   writes, everStored>>
    /\ UNCHANGED <<flVars, phVars>>

\* loadFromDirectory up to its loop (lines 293-299, 321-329): no lock is
\* taken; the iterator will yield the directory's entries in some order.
ThLoadFromDirectory(t, folderPath, recursive) ==
    /\ threads[t].pc = "idle"
    /\ folderPath \in Dirs
    /\ \E order \in Perms(Entries(folderPath, recursive)) :
           threads' = [threads EXCEPT ![t] =
                           [Idle EXCEPT !.pc = "scanning", !.op = "loadFromDirectory",
                                        !.arg = folderPath, !.flag = recursive,
                                        !.order = order, !.i = 1]]
    /\ UNCHANGED <<currentLocale, translations, jsons, fileTimestamps, debugOptions,
                   errorCallback, mutex, relock, call, fs, writes, everStored>>
    /\ UNCHANGED <<flVars, phVars>>

\* tryLoad of the next entry (lines 301-307): an entry that is no .json file
\* is passed over; for a .json file loadFromFile is called and locks.
ThTryLoad(t) ==
    /\ threads[t].pc = "scanning"
    /\ threads[t].i <= Len(threads[t].order)
    /\ IF Extension(threads[t].order[threads[t].i]) = <<".", "json">>
       THEN /\ mutex = "free"
            /\ mutex' = "exclusive"
            /\ threads' = [threads EXCEPT ![t].pc = "loading",
                                          ![t].holds = "exclusive"]
       ELSE /\ mutex' = mutex
            /\ threads' = [threads EXCEPT ![t].i = @ + 1]
    /\ UNCHANGED <<currentLocale, translations, jsons, fileTimestamps, debugOptions,
                   errorCallback, relock, call, fs, writes, everStored>>
    /\ UNCHANGED <<flVars, phVars>>

\* That loadFromFile runs to its return or its throw, which tryLoad catches
\* (lines 307-317); its lock is released either way.
ThTryLoadReturn(t) ==
    /\ threads[t].pc = "loading"
    /\ LET r == loadFromFileBody(Data, threads[t].order[threads[t].i])
       IN  /\ translations'   = r.data.translations
           /\ jsons'          = r.data.jsons
           /\ fileTimestamps' = r.data.fileTimestamps
           /\ threads' = [threads EXCEPT
                  ![t].pc = "scanning", ![t].holds = "none", ![t].i = @ + 1,
                  ![t].merged = IF r.outcome = "returned" THEN @ + 1 ELSE @]
    /\ mutex' = "free"
    /\ UNCHANGED <<currentLocale, debugOptions, errorCallback, relock, call, fs,
                   writes, everStored>>
    /\ UNCHANGED <<flVars, phVars>>

\* The iterator is at its end: loadFromDirectory returns.
ThScanReturn(t) ==
    /\ threads[t].pc = "scanning"
    /\ threads[t].i > Len(threads[t].order)
    /\ threads' = [threads EXCEPT ![t] = Idle]
    /\ UNCHANGED <<currentLocale, translations, jsons, fileTimestamps, debugOptions,
                   errorCallback, mutex, relock, call, fs, writes, everStored>>
    /\ UNCHANGED <<flVars, phVars>>

ThreadsNext ==
    \E t \in Threads :
        \/ \E k \in ThKeys : ThReadLock(t, "translate", k)
        \/ \E k \in ThKeys : ThReadLock(t, "hasKey", k)
        \/ ThReadLock(t, "getLocale", EmptyStr)
        \/ ThReadLock(t, "isDebugModeOn", EmptyStr)
        \/ \E l \in ThLocales : ThWriteLock(t, "setLocale", l, FALSE)
        \/ \E b \in BOOLEAN : ThWriteLock(t, "setDebugMode", EmptyStr, b)
        \/ ThWriteLock(t, "loadFromFile", UiJson, FALSE)
        \/ ThTranslate(t)
        \/ ThHasKey(t)
        \/ ThGetLocale(t)
        \/ ThIsDebugModeOn(t)
        \/ ThSetLocale(t)
        \/ ThSetDebugMode(t)
        \/ ThLoadFromFile(t)
        \/ \E r \in BOOLEAN : ThLoadFromDirectory(t, LangsDir, r)
        \/ ThTryLoad(t)
        \/ ThTryLoadReturn(t)
        \/ ThScanReturn(t)

\* No operation of ThreadsNext reads relock.
InitThreads ==
    /\ Init
    /\ relock = "throws"

SpecThreads == InitThreads /\ [][ThreadsNext]_vars

----------------------------------------------------------------------------
(* Two files of different namespaces, langs/ui.json and langs/menu.json,   *)
(* loaded, rewritten with keys deleted and loaded again.                    *)

InitFrame ==
    /\ currentLocale = DEFAULT_LOCALE
    /\ translations = EmptyMap
    /\ jsons = <<>>
    /\ fileTimestamps = EmptyMap
    /\ debugOptions = DefaultDebugOptions
    /\ errorCallback = FALSE
    /\ mutex = "free"
    /\ relock \in RelockOutcomes
    /\ call = NoCall
    /\ fs = [p \in Paths |->
                CASE p = UiJson   -> JsonFile(DocA, 1)
                  [] p = MenuJson -> JsonFile(DocM, 1)
                  [] OTHER        -> Absent]
    /\ writes = 0
    /\ everStored = {}
    /\ threads = [t \in Threads |-> Idle]
    /\ root = JNull /\ stack = <<>> /\ out = EmptyMap /\ flpc = "idle"
    /\ text = EmptyStr /\ params = EmptyMap /\ pos = 0 /\ result = EmptyStr
    /\ phpc = "idle"

FrameNext ==
    \/ \E p \in {UiJson, MenuJson} : LoadFromFile(p)
    \/ \E c \in BOOLEAN : ReloadAllJsons(c)
    \/ CheckForJsonChanges
    \/ \E l \in Locales : SetLocale(l)
    \/ \E b \in BOOLEAN : SetDebugMode(b)
    \/ WriteFile(UiJson, "json", DocB)
    \/ WriteFile(MenuJson, "json", DocM2)

SpecFrame == InitFrame /\ [][FrameNext]_vars

----------------------------------------------------------------------------
(* flattenJsonIterative as loadFromFile runs it for one locale of a file:  *)
(* the work-list loop turn by turn, then the merge into the locale's table *)

\* How deep a tree is nested and how many members an object has.
MaxDepth == 2
MaxKids  == 2

\* The member names, in the order std::map keeps them; one holds the
\* separator.
NameOrder == << <<"a">>, <<"a", ".", "b">>, <<"b">> >>

LeafTrees == {JStr(<<"x">>), JStr(<<"y">>), JNum, JArr(<<JStr(<<"x">>)>>)}

\* The members of an object: the names of DOMAIN f, in order, with f's trees.
RECURSIVE KidsFrom(_, _)
KidsFrom(f, i) ==
    IF i > Len(NameOrder) THEN <<>>
    ELSE (IF i \in DOMAIN f THEN << <<NameOrder[i], f[i]>> >> ELSE <<>>)
             \o KidsFrom(f, i + 1)

RECURSIVE TreesOfDepth(_)
TreesOfDepth(d) ==
    IF d = 0 THEN LeafTrees
    ELSE LET T == TreesOfDepth(d - 1)
             F == UNION {[I -> T] : I \in {J \in SUBSET (1..Len(NameOrder)) :
                                               Cardinality(J) <= MaxKids}}
         IN  LeafTrees \cup {JObj(KidsFrom(f, 1)) : f \in F}

FlLang == <<"en">>
FlNs   == <<"ui">>

InitFlatten ==
    /\ currentLocale = DEFAULT_LOCALE
    /\ translations = EmptyMap
    /\ jsons = <<>>
    /\ fileTimestamps = EmptyMap
    /\ debugOptions = DefaultDebugOptions
    /\ errorCallback = FALSE
    /\ mutex = "free"
    /\ relock = "throws"
    /\ call = NoCall
    /\ fs = [p \in Paths |-> Absent]
    /\ writes = 0
    /\ everStored = {}
    /\ threads = [t \in Threads |-> Idle]
    /\ root \in TreesOfDepth(MaxDepth)
    /\ stack = <<[json |-> root, prefix |-> EmptyStr]>>
    /\ out = EmptyMap
    /\ flpc = "loop"
    /\ text = EmptyStr /\ params = EmptyMap /\ pos = 0 /\ result = EmptyStr
    /\ phpc = "idle"

\* One turn of while (!stack.empty()) (lines 208-220)
FlattenTurn ==
    /\ flpc = "loop"
    /\ stack # <<>>
    /\ LET r == FlattenStep(stack, out)
       IN  stack' = r.stack /\ out' = r.out
    /\ UNCHANGED <<root, flpc, locVars, phVars, thVars>>

\* The loop is over: the pairs of flatMap go under the namespace into the
\* locale's table (lines 279-283).
FlattenMerge ==
    /\ flpc = "loop"
    /\ stack = <<>>
    /\ translations' = MergeFlat(translations, FlLang, FlNs, out)
    /\ flpc' = "done"
    /\ UNCHANGED <<root, stack, out, phVars, thVars>>
    /\ UNCHANGED <<currentLocale, jsons, fileTimestamps, debugOptions, errorCallback,
                   mutex, relock, call, fs, writes, everStored>>

FlattenNext == FlattenTurn \/ FlattenMerge

SpecFlatten == InitFlatten /\ [][FlattenNext]_vars


----------------------------------------------------------------------------
(* LocalizedString::str and applyPlaceholders, the scanning loop turn by   *)
(* turn.  Positions are those of the code, counted from 0.                 *)

\* How long a text is.
MaxTextLen == 6

PhAlphabet == {"{", "}", "n", "s"}

Texts == UNION {[1..n -> PhAlphabet] : n \in 0..MaxTextLen}

ParamChoices ==
    {EmptyMap,
     [k \in {<<"n">>} |-> <<"V">>],
     [k \in {<<"n">>, <<"s">>} |-> IF k = <<"n">> THEN <<"{", "s", "}">> ELSE <<"W">>]}

\* std::string::npos
NPos == -1

\* std::string::find(c, from)
Find(t, c, from) ==
    LET I == {i \in from..(Len(t) - 1) : t[i + 1] = c}
    IN  IF I = {} THEN NPos ELSE CHOOSE i \in I : \A j \in I : i <= j

\* std::string::substr(from, count) and append(text, from, count)
Substr(t, from, count) == SubSeq(t, from + 1, from + count)

\* One turn of while (pos < text.size()) (lines 550-575): the result and the
\* position after it, and whether the turn left the loop by break.
PlaceholderTurnDropsUnresolved(t, ps, p, res) ==
    LET open == Find(t, "{", p)
    IN  IF open = NPos
        THEN [result |-> res \o Substr(t, p, Len(t) - p), pos |-> p, break |-> TRUE]
        ELSE LET res1  == res \o Substr(t, p, open - p)
                 close == Find(t, "}", open + 1)
             IN  IF close = NPos
                 THEN [result |-> res1 \o Substr(t, open, Len(t) - open),
                       pos |-> p, break |-> TRUE]
                 ELSE LET key == Substr(t, open + 1, close - open - 1)
                      IN  [result |-> IF Contains(ps, key) THEN res1 \o ps[key]
                                      ELSE res1,
                           pos |-> close + 1, break |-> FALSE]

PlaceholderTurnRescansValue(t, ps, p, res) ==
    LET open == Find(t, "{", p)
    IN  IF open = NPos
        THEN [result |-> res \o Substr(t, p, Len(t) - p), pos |-> p, break |-> TRUE]
        ELSE LET res1  == res \o Substr(t, p, open - p)
                 close == Find(t, "}", open + 1)
             IN  IF close = NPos
                 THEN [result |-> res1 \o Substr(t, open, Len(t) - open),
                       pos |-> p, break |-> TRUE]
                 ELSE LET key == Substr(t, open + 1, close - open - 1)
                          inner(v) == IF Len(v) >= 2 THEN SubSeq(v, 2, Len(v) - 1)
                                      ELSE EmptyStr
                          again(v) == IF /\ Len(v) >= 2
                                         /\ v[1] = "{" /\ v[Len(v)] = "}"
                                         /\ Contains(ps, inner(v))
                                      THEN ps[inner(v)] ELSE v
                      IN  [result |-> IF Contains(ps, key) THEN res1 \o again(ps[key])
                                      ELSE res1 \o Substr(t, open, close - open + 1),
                           pos |-> close + 1, break |-> FALSE]

PlaceholderTurn(t, ps, p, res) ==
    LET open == Find(t, "{", p)
    IN  IF open = NPos
        THEN [result |-> res \o Substr(t, p, Len(t) - p), pos |-> p, break |-> TRUE]
        ELSE LET res1  == res \o Substr(t, p, open - p)
                 close == Find(t, "}", open + 1)
             IN  IF close = NPos
                 THEN [result |-> res1 \o Substr(t, open, Len(t) - open),
                       pos |-> p, break |-> TRUE]
                 ELSE LET key == Substr(t, open + 1, close - open - 1)
                      IN  [result |-> IF Contains(ps, key) THEN res1 \o ps[key]
                                      ELSE res1 \o Substr(t, open, close - open + 1),
                           pos |-> close + 1, break |-> FALSE]

\* applyPlaceholders from position p on (lines 546-576)
RECURSIVE PlaceholderLoop(_, _, _, _)
PlaceholderLoop(t, ps, p, res) ==
    IF p < Len(t)
    THEN LET r == PlaceholderTurn(t, ps, p, res)
         IN  IF r.break THEN r.result ELSE PlaceholderLoop(t, ps, r.pos, r.result)
    ELSE res

applyPlaceholders(t, ps) == PlaceholderLoop(t, ps, 0, EmptyStr)

InitPlaceholders ==
    /\ currentLocale = DEFAULT_LOCALE
    /\ translations = EmptyMap
    /\ jsons = <<>>
    /\ fileTimestamps = EmptyMap
    /\ debugOptions = DefaultDebugOptions
    /\ errorCallback = FALSE
    /\ mutex = "free"
    /\ relock = "throws"
    /\ call = NoCall
    /\ fs = [p \in Paths |-> Absent]
    /\ writes = 0
    /\ everStored = {}
    /\ threads = [t \in Threads |-> Idle]
    /\ root = JNull /\ stack = <<>> /\ out = EmptyMap /\ flpc = "idle"
    /\ text \in Texts
    /\ params \in ParamChoices
    /\ pos = 0
    /\ result = EmptyStr
    /\ phpc = "str"

\* str() (lines 599-603) with base = text: params.empty() ? base : ...
StrSkips ==
    /\ phpc = "str"
    /\ params = EmptyMap
    /\ result' = text
    /\ phpc' = "done"
    /\ UNCHANGED <<text, params, pos, locVars, flVars, thVars>>

StrApplies ==
    /\ phpc = "str"
    /\ params # EmptyMap
    /\ phpc' = "loop"
    /\ UNCHANGED <<text, params, pos, result, locVars, flVars, thVars>>

PlaceholderIter ==
    /\ phpc = "loop"
    /\ pos < Len(text)
    /\ LET r == PlaceholderTurn(text, params, pos, result)
       IN  /\ result' = r.result
           /\ pos' = r.pos
           /\ phpc' = IF r.break THEN "done" ELSE "loop"
    /\ UNCHANGED <<text, params, locVars, flVars, thVars>>

PlaceholderReturn ==
    /\ phpc = "loop"
    /\ pos >= Len(text)
    /\ phpc' = "done"
    /\ UNCHANGED <<text, params, pos, result, locVars, flVars, thVars>>

PlaceholderNext == StrSkips \/ StrApplies \/ PlaceholderIter \/ PlaceholderReturn

SpecPlaceholders == InitPlaceholders /\ [][PlaceholderNext]_vars


----------------------------------------------------------------------------
(* What the claims speak of *)

\* The table of a locale, empty when the store has none for it.
TableOf(tr, l) == IF l \in DOMAIN tr THEN tr[l] ELSE EmptyMap

\* A path of member names joined by the separator.
RECURSIVE JoinPath(_)
JoinPath(names) ==
    IF names = <<>> THEN EmptyStr
    ELSE IF Len(names) = 1 THEN names[1]
    ELSE names[1] \o Separator \o JoinPath(Tail(names))

\* The string leaves of a tree of objects: <<path of names, string>>.
RECURSIVE StringLeaves(_, _)
StringLeaves(tree, path) ==
    CASE tree.t = "str" -> {<<path, tree.s>>}
      [] tree.t = "obj" ->
             UNION {StringLeaves(tree.kids[i][2], Append(path, tree.kids[i][1])) :
                        i \in 1..Len(tree.kids)}
      [] OTHER -> {}

\* What the file at path defines now: <<locale, full key, value>>.
FileDefines(path) ==
    LET doc == fs[path].doc
    IN  UNION {{<<doc.kids[i][1], Stem(path) \o Separator \o JoinPath(l[1]), l[2]>> :
                    l \in StringLeaves(doc.kids[i][2], <<>>)} :
                i \in 1..Len(doc.kids)}

Holds(tr, d) ==
    /\ d[1] \in DOMAIN tr
    /\ d[2] \in DOMAIN tr[d[1]]
    /\ tr[d[1]][d[2]] = d[3]

MissingText(key) == <<"[", "Missing:">> \o key \o <<"]">>

\* C1: with debug mode off, translate(K) returns the Active Locale's value
\* for K when it has one, and the default locale's value when the Active
\* Locale has none and the default locale has one.
C1_TranslateActiveThenDefault ==
    (call.op = "translate" /\ ~debugOptions.enabled) =>
        LET K      == call.arg
            active == TableOf(translations, currentLocale)
            dflt   == TableOf(translations, DEFAULT_LOCALE)
        IN  /\ K \in DOMAIN active => call.text = active[K]
            /\ (K \notin DOMAIN active /\ K \in DOMAIN dflt) => call.text = dflt[K]

\* translate has returned the Active Locale's value of a key for which the
\* default locale holds another value.
C1_Witness ==
    /\ call.op = "translate"
    /\ currentLocale = <<"fr">>
    /\ call.arg = <<"ui", ".", "a">>
    /\ call.text = <<"Jouer">>
    /\ Holds(translations, <<DEFAULT_LOCALE, <<"ui", ".", "a">>, <<"Play">>>>)

\* C2: for a key absent from the Active Locale's and the default locale's
\* table, translate returns "[Missing:" + K + "]", wrapped in keyColor and
\* resetColor exactly when debug and coloured output are both on, and never
\* with the debug prefix and key echo in front.
C2_MissingKeyText ==
    (/\ call.op = "translate"
     /\ call.arg \notin DOMAIN TableOf(translations, currentLocale)
     /\ call.arg \notin DOMAIN TableOf(translations, DEFAULT_LOCALE)) =>
        /\ call.outcome = "returned"
        /\ call.text = IF debugOptions.enabled /\ debugOptions.coloredOutput
                       THEN debugOptions.keyColor \o MissingText(call.arg)
                                \o debugOptions.resetColor
                       ELSE MissingText(call.arg)
        /\ debugOptions.enabled =>
               ~IsPrefix(DebugPrefix(debugOptions, call.arg), call.text)

\* translate has returned the coloured missing-key text while a debug prefix
\* was configured.
C2_Witness ==
    /\ call.op = "translate"
    /\ call.arg \notin DOMAIN TableOf(translations, currentLocale)
    /\ call.arg \notin DOMAIN TableOf(translations, DEFAULT_LOCALE)
    /\ debugOptions.enabled /\ debugOptions.coloredOutput
    /\ debugOptions.prefix # EmptyStr
    /\ call.text = ColorCyan \o MissingText(call.arg) \o ColorReset

\* C3: for a locale that no load has ever stored a key for, setLocale
\* returns false and leaves the Active Locale as it was.
C3_SetLocaleOfNeverLoadedFails ==
    [][(call'.op = "setLocale" /\ call'.arg \notin everStored) =>
           (call'.bool = FALSE /\ currentLocale' = currentLocale)]_vars

\* C4: setLocale(L) returns true and makes L the Active Locale exactly when
\* L is a key of the Table Store at the call; otherwise it returns false and
\* the Active Locale stays; the store, the registry, the timestamps and the
\* debug configuration stay in both cases, and a getLocale that follows
\* returns the Active Locale.
C4_SetLocaleExactlyWhenKnown ==
    [][/\ call'.op = "setLocale" =>
              /\ call'.bool = (call'.arg \in DOMAIN translations)
              /\ currentLocale' = IF call'.arg \in DOMAIN translations
                                  THEN call'.arg ELSE currentLocale
              /\ UNCHANGED <<translations, jsons, fileTimestamps, debugOptions>>
       /\ (call.op = "setLocale" /\ call'.op = "getLocale") =>
              /\ call'.text = currentLocale
              /\ call.bool => call'.text = call.arg
              /\ currentLocale' = currentLocale]_vars

\* setLocale of a known locale other than the current one has returned true.
C4_Witness ==
    /\ call.op = "setLocale"
    /\ call.arg = <<"fr">>
    /\ call.bool
    /\ currentLocale = <<"fr">>

\* C5: a successful loadFromFile leaves in the store the file's value for
\* every (locale, key) the file defines, whatever an earlier file had stored
\* there, and every other (locale, key) keeps the value it had.
C5_LastLoadWinsPerKey ==
    [][(call'.op = "loadFromFile" /\ call'.outcome = "returned") =>
           LET D == FileDefines(call'.arg)
           IN  /\ \A d \in D : Holds(translations', d)
               /\ \A l \in DOMAIN translations : \A k \in DOMAIN translations[l] :
                      (~ \E d \in D : d[1] = l /\ d[2] = k) =>
                          Holds(translations', <<l, k, translations[l][k]>>)]_vars

\* langs/ui.json and then langs/sub/ui.json were loaded: "ui.a" of "en",
\* which both define, has the second file's value and "ui.b", which the
\* first alone defines, has kept the first file's.
C5_Witness ==
    /\ call.op = "loadFromFile"
    /\ call.arg = SubUiJson
    /\ call.outcome = "returned"
    /\ Holds(translations, <<DEFAULT_LOCALE, <<"ui", ".", "a">>, <<"Go">>>>)
    /\ Holds(translations, <<DEFAULT_LOCALE, <<"ui", ".", "b">>, <<"Exit">>>>)

\* C6: the entries a tree adds to the locale's table are exactly one per
\* string leaf, under ns + separator + the leaf's path of names joined by the
\* separator, with the leaf's string; nothing else adds an entry.
C6_OneEntryPerStringLeaf ==
    flpc = "done" =>
        LET L   == StringLeaves(root, <<>>)
            tbl == TableOf(translations, FlLang)
            KeyOf(l) == FlNs \o Separator \o JoinPath(l[1])
        IN  /\ DOMAIN tbl = {KeyOf(l) : l \in L}
            /\ \A l \in L : tbl[KeyOf(l)] = l[2]
            /\ Cardinality(DOMAIN tbl) = Cardinality(L)

\* The text in which every '{' + name + '}' with a brace-free name of params
\* is replaced by the name's value and everything else is copied, from
\* position i (counted from 1) on.
IsBraceFree(n) == \A i \in 1..Len(n) : n[i] \notin {"{", "}"}

TokenAt(t, ps, i) ==
    {n \in DOMAIN ps : /\ IsBraceFree(n)
                       /\ i + Len(n) + 1 <= Len(t)
                       /\ SubSeq(t, i, i + Len(n) + 1) = <<"{">> \o n \o <<"}">>}

RECURSIVE EveryTokenReplaced(_, _, _)
EveryTokenReplaced(t, ps, i) ==
    IF i > Len(t) THEN EmptyStr
    ELSE IF TokenAt(t, ps, i) # {}
    THEN LET n == CHOOSE n \in TokenAt(t, ps, i) : TRUE
         IN  ps[n] \o EveryTokenReplaced(t, ps, i + Len(n) + 2)
    ELSE <<t[i]>> \o EveryTokenReplaced(t, ps, i + 1)

\* C7: with non-empty params, every '{' + name + '}' of the text whose name
\* is a key of params is replaced by its value and all other text is copied
\* unchanged and in order, stray opening braces included.
C7_EveryKnownTokenReplaced ==
    (phpc = "done" /\ params # EmptyMap) =>
        result = EveryTokenReplaced(text, params, 1)

\* The fragment from the first opening brace after the last closing brace.
TrailingFragment(t) ==
    LET from == LastIndexOf(t, "}")
        I    == {i \in (from + 1)..Len(t) : t[i] = "{"}
    IN  IF I = {} THEN EmptyStr
        ELSE SubSeq(t, CHOOSE i \in I : \A j \in I : i <= j, Len(t))

IsSuffix(a, b) == Len(a) <= Len(b) /\ SubSeq(b, Len(b) - Len(a) + 1, Len(b)) = a

\* C8: what substitution cannot resolve stays verbatim: the output ends with
\* the unterminated trailing fragment of the text; a text in which no
\* '{' + name + '}' has a name of params comes out as it went in; and so
\* does every text under empty params, the case str() skips.
C8_UnresolvedStaysVerbatim ==
    phpc = "done" =>
        /\ IsSuffix(TrailingFragment(text), result)
        /\ (\A i \in 1..Len(text) : TokenAt(text, params, i) = {}) => result = text
        /\ applyPlaceholders(text, EmptyMap) = text

\* A text with an unknown token and an unterminated fragment went through
\* the scanning loop under non-empty params and came out unchanged.
C8_Witness ==
    /\ phpc = "done"
    /\ params = [k \in {<<"n">>} |-> <<"V">>]
    /\ text = <<"{", "s", "}", "s", "{", "n">>
    /\ result = text

\* A tracked file that exists, holds a document and whose modification time
\* is not the stored one.
Changed(p) ==
    /\ p \in DOMAIN fileTimestamps
    /\ Exists(p)
    /\ fs[p].kind = "json"
    /\ LastWriteTime(p) # fileTimestamps[p]

\* C9: when a tracked file has changed, checkForJsonChanges returns normally
\* and the store then holds the file's new value for every (locale, key) the
\* file defines.
C9_CheckReloadsChangedFile ==
    [][(call'.op = "checkForJsonChanges" /\ \E p \in Paths : Changed(p)) =>
           /\ call'.outcome = "returned"
           /\ \A p \in Paths : Changed(p) =>
                  \A d \in FileDefines(p) : Holds(translations', d)]_vars

\* No tracked file that exists has a modification time other than the
\* stored one.
NoneModified ==
    \A p \in DOMAIN fileTimestamps :
        ~Exists(p) \/ LastWriteTime(p) = fileTimestamps[p]

\* C10: when no tracked file is modified (a deleted one counts as not
\* modified), checkForJsonChanges calls loadFromFile zero times, returns, and
\* leaves the store, the registry, the timestamps and the Active Locale as
\* they were, however often it is called.
C10_CheckWithoutChangesIsIdle ==
    [][(call'.op = "checkForJsonChanges" /\ NoneModified) =>
           /\ call'.loads = 0
           /\ call'.outcome = "returned"
           /\ UNCHANGED <<translations, jsons, fileTimestamps, currentLocale>>]_vars

\* checkForJsonChanges has returned without a load while two files were
\* tracked, one of them deleted since.
C10_Witness ==
    /\ call.op = "checkForJsonChanges"
    /\ call.outcome = "returned"
    /\ call.loads = 0
    /\ Len(jsons) = 2
    /\ \E p \in DOMAIN fileTimestamps : ~Exists(p)

\* C11: every public operation has released the lock when it has returned
\* or thrown, no operation locks the mutex while its thread holds it, and so
\* a single caller is never left stuck inside reloadAllJsons or
\* checkForJsonChanges.
C11_LockScopedAndNeverRetaken ==
    /\ mutex = "free"
    /\ call.outcome # "blocked"
    /\ call.relocks = 0

\* C12: in every interleaving the Table Store, the Loaded-File Registry
\* (with its timestamps), the Active Locale and the Debug Configuration
\* change only in a step of a thread that holds the exclusive lock; a thread
\* that holds the shared lock (translate, hasKey, getLocale, isDebugModeOn)
\* changes none of them.
C12_WritesOnlyUnderExclusiveLock ==
    [][(<<translations, jsons, fileTimestamps, currentLocale, debugOptions>>' #
            <<translations, jsons, fileTimestamps, currentLocale, debugOptions>>)
           => \E t \in Threads : threads[t].holds = "exclusive"]_vars

\* Thread t is between two merges of its directory scan: a file of the scan
\* has been merged and a loadable .json file of it is yet to come.
MidScan(t) ==
    /\ threads[t].op = "loadFromDirectory"
    /\ threads[t].merged > 0
    /\ \E j \in threads[t].i..Len(threads[t].order) :
           /\ Extension(threads[t].order[j]) = <<".", "json">>
           /\ Decodes(threads[t].order[j])

\* C13: loadFromDirectory keeps the exclusive lock for the whole call: while
\* one thread is between two merges of its scan, no other thread runs the
\* body of translate, hasKey, setLocale or a load.
C13_NoCallRunsInsideAScan ==
    [][\A t, u \in Threads :
           (t # u /\ MidScan(t) /\ threads[u].pc \in {"locked", "loading"})
               => threads'[u] = threads[u]]_vars

\* The store tr after the current content of every loadable file of paths,
\* from the i-th on, has been merged into it in that order.
RECURSIVE MergedInOrder(_, _, _)
MergedInOrder(tr, paths, i) ==
    IF i > Len(paths) THEN tr
    ELSE MergedInOrder(IF Decodes(paths[i])
                       THEN MergeLangs(tr, Items(fs[paths[i]].doc), 1, Stem(paths[i]))
                       ELSE tr,
                       paths, i + 1)

\* How many times code occurs in a sequence of reported codes.
Occurrences(reports, code) ==
    Cardinality({i \in 1..Len(reports) : reports[i] = code})

\* C14: reloadAllJsons(clearBefore) returns with the store equal to the
\* starting store (empty when clearBefore) merged with the current content of
\* every loadable registry file in registry order, and reports code 2 once
\* for every registry file that fails, going on with the rest.
C14_ReloadMergesEveryRegistryFile ==
    [][call'.op = "reloadAllJsons" =>
           /\ call'.outcome = "returned"
           /\ translations' =
                  MergedInOrder(IF call'.flag THEN EmptyMap ELSE translations, jsons, 1)
           /\ errorCallback =>
                  Occurrences(call'.reports, 2) =
                      Cardinality({i \in 1..Len(jsons) : ~Decodes(jsons[i])})]_vars

\* The .json files a scan of folderPath passes to loadFromFile.
Matching(folderPath, recursive) ==
    {p \in Entries(folderPath, recursive) : Extension(p) = <<".", "json">>}

MissingTexts(dbg, key) ==
    {MissingText(key), dbg.keyColor \o MissingText(key) \o dbg.resetColor}

\* C16: hasKey(K) is true exactly when K is a key of the Active Locale's
\* table or of the default locale's table, which is exactly when translate(K)
\* returns something other than the missing-key text, and that under every
\* debug configuration.
C16_HasKeyIffResolvable ==
    call.op = "hasKey" =>
        LET K == call.arg
        IN  /\ call.bool = (\/ K \in DOMAIN TableOf(translations, currentLocale)
                            \/ K \in DOMAIN TableOf(translations, DEFAULT_LOCALE))
            /\ \A dbg \in DebugChoices \cup {debugOptions} :
                   call.bool = (translate(translations, currentLocale, dbg, K).text
                                    \notin MissingTexts(dbg, K))

\* With debug mode on, hasKey has returned true for a key that the Active
\* Locale lacks and the default locale holds.
C16_Witness ==
    /\ call.op = "hasKey"
    /\ call.bool
    /\ debugOptions.enabled
    /\ currentLocale = <<"fr">>
    /\ call.arg = <<"ui", ".", "b">>
    /\ call.arg \notin DOMAIN TableOf(translations, currentLocale)

\* C17: for a key found in the Active Locale's table or, failing that, in
\* the default locale's, translate returns the value alone when debug mode is
\* off, prefix + "[" + K + "] " + value when it is on without colours and
\* prefix + keyColor + "[" + K + "]" + resetColor + " " + value when it is
\* on with colours, by the Debug Configuration in force at the call.
C17_DebugEchoBeforeValue ==
    LET K      == call.arg
        active == TableOf(translations, currentLocale)
        dflt   == TableOf(translations, DEFAULT_LOCALE)
        dbg    == debugOptions
    IN  (call.op = "translate" /\ K \in DOMAIN active \cup DOMAIN dflt) =>
            LET value == IF K \in DOMAIN active THEN active[K] ELSE dflt[K]
            IN  call.text =
                    IF ~dbg.enabled THEN value
                    ELSE IF dbg.coloredOutput
                    THEN dbg.prefix \o dbg.keyColor \o <<"[">> \o K \o <<"]">>
                             \o dbg.resetColor \o <<" ">> \o value
                    ELSE dbg.prefix \o <<"[">> \o K \o <<"]", " ">> \o value

\* translate has returned a value found by fallback behind the prefix and
\* the coloured echo of the key that main.cpp configures.
C17_Witness ==
    /\ call.op = "translate"
    /\ currentLocale = <<"fr">>
    /\ call.arg = <<"ui", ".", "b">>
    /\ debugOptions.enabled /\ debugOptions.coloredOutput
    /\ call.text = <<"[", "DBG", "]", " ">> \o ColorCyan
                       \o <<"[", "ui", ".", "b", "]">> \o ColorReset
                       \o <<" ", "Exit">>

\* The paths of the registry.
Registered(js) == {js[i] : i \in 1..Len(js)}

Modified(p) ==
    /\ p \in DOMAIN fileTimestamps
    /\ Exists(p)
    /\ LastWriteTime(p) # fileTimestamps[p]

\* C19: a checkForJsonChanges whose reload of a modified file fails has
\* stored the file's new modification time all the same, and the
\* checkForJsonChanges that comes next, the file not modified again, calls
\* loadFromFile for nothing (langs/ui.json is the one file that changes).
C19_TimestampStoredBeforeReload ==
    [][call'.op = "checkForJsonChanges" =>
           /\ (call'.loads > 0 /\ call'.outcome # "returned") =>
                  \E p \in Paths : /\ Modified(p)
                                   /\ fileTimestamps'[p] = LastWriteTime(p)
           /\ (call.op = "checkForJsonChanges" /\ call.loads > 0
                   /\ call.outcome = "threw") =>
                  call'.loads = 0]_vars

\* langs/ui.json was overwritten with text that is no JSON; a check has
\* failed to reload it, which alone can have stored that file's time, and
\* the check after it has loaded nothing.
C19_Witness ==
    /\ call.op = "checkForJsonChanges"
    /\ call.outcome = "returned"
    /\ call.loads = 0
    /\ fs[UiJson].kind = "garbage"
    /\ UiJson \in DOMAIN fileTimestamps
    /\ fileTimestamps[UiJson] = LastWriteTime(UiJson)

\* C20: once a setLocale has succeeded (nothing else moves the Active Locale
\* off the default), the Active Locale is a key of the Table Store after
\* every loadFromFile, loadFromDirectory, reloadAllJsons, checkForJsonChanges
\* and setLocale that has returned or thrown.
C20_ActiveLocaleStaysInStore ==
    (/\ currentLocale # DEFAULT_LOCALE
     /\ call.op \in {"setLocale", "loadFromFile", "loadFromDirectory",
                     "reloadAllJsons", "checkForJsonChanges"}
     /\ call.outcome # "blocked")
        => currentLocale \in DOMAIN translations

\* One symbol per name of params, none of them a symbol of a text or of a
\* value, and params with every value replaced by its name's symbol.
MarkOf(name) == IF name = <<"n">> THEN "#n" ELSE "#s"

Marked(ps) == [name \in DOMAIN ps |-> <<MarkOf(name)>>]

\* The text in which every symbol that marks a name of params is replaced by
\* the name's value.
RECURSIVE Unmarked(_, _)
Unmarked(t, ps) ==
    IF t = <<>> THEN EmptyStr
    ELSE LET N == {name \in DOMAIN ps : MarkOf(name) = Head(t)}
         IN  (IF N = {} THEN <<Head(t)>> ELSE ps[CHOOSE name \in N : TRUE])
                 \o Unmarked(Tail(t), ps)

\* C21: substitution is one pass over the original text, an inserted value
\* is not scanned again: the output is what comes of substituting opaque
\* marks for the tokens and then putting each value in its mark's place, so a
\* value that reads '{x}' with x a name of params stays as it is; the output
\* is determined by the text and the name-to-value map alone.
C21_InsertedValueNotRescanned ==
    (phpc = "done" /\ params # EmptyMap) =>
        /\ result = Unmarked(applyPlaceholders(text, Marked(params)), params)
        /\ (text = <<"{", "n", "}">> /\ <<"n">> \in DOMAIN params) =>
               result = params[<<"n">>]

\* The token {n} was replaced by the value "{s}" while s is a name of
\* params too, and "{s}" stands in the output as it is.
C21_Witness ==
    /\ phpc = "done"
    /\ text = <<"{", "n", "}", "{", "s", "}">>
    /\ DOMAIN params = {<<"n">>, <<"s">>}
    /\ params[<<"n">>] = <<"{", "s", "}">>
    /\ result = <<"{", "s", "}", "W">>

\* The locales that are top-level keys of the file at path.
TopLevel(path) ==
    {fs[path].doc.kids[i][1] : i \in 1..Len(fs[path].doc.kids)}

\* Every (locale, key) of the store tr is one of the store tr2.
NoKeyRemoved(tr, tr2) ==
    \A l \in DOMAIN tr :
        /\ l \in DOMAIN tr2
        /\ DOMAIN tr[l] \subseteq DOMAIN tr2[l]

\* C22: a successful loadFromFile of a file of namespace ns adds or changes
\* only entries whose key starts with ns + separator, in locales that are
\* top-level keys of the file; all other entries, the Active Locale and the
\* Debug Configuration stay, and no loadFromFile, checkForJsonChanges or
\* reloadAllJsons(false) removes a key from the store.
C22_LoadTouchesOnlyItsNamespace ==
    [][/\ (call'.op = "loadFromFile" /\ call'.outcome = "returned") =>
              LET ns == Stem(call'.arg) \o Separator
                  L  == TopLevel(call'.arg)
              IN  /\ \A l \in DOMAIN translations' : \A k \in DOMAIN translations'[l] :
                         (\/ l \notin DOMAIN translations
                          \/ k \notin DOMAIN translations[l]
                          \/ translations'[l][k] # translations[l][k])
                             => (IsPrefix(ns, k) /\ l \in L)
                  /\ \A l \in DOMAIN translations' \ L :
                         l \in DOMAIN translations /\ translations'[l] = translations[l]
                  /\ UNCHANGED <<currentLocale, debugOptions>>
       /\ (\/ call'.op \in {"loadFromFile", "checkForJsonChanges"}
           \/ (call'.op = "reloadAllJsons" /\ ~call'.flag)) =>
              NoKeyRemoved(translations, translations')]_vars

\* langs/menu.json was loaded, rewritten without its key "a" and loaded
\* again: "menu.a" is still in the store beside the new "menu.b", and the
\* entries of langs/ui.json are as its load left them.
C22_Witness ==
    /\ call.op = "loadFromFile"
    /\ call.arg = MenuJson
    /\ call.outcome = "returned"
    /\ fs[MenuJson].doc = DocM2
    /\ Holds(translations, <<DEFAULT_LOCALE, <<"menu", ".", "a">>, <<"Open">>>>)
    /\ Holds(translations, <<DEFAULT_LOCALE, <<"menu", ".", "b">>, <<"Close">>>>)
    /\ Holds(translations, <<DEFAULT_LOCALE, <<"ui", ".", "a">>, <<"Play">>>>)
    /\ Holds(translations, <<<<"de">>, <<"menu", ".", "a">>, <<"Auf">>>>)

============================================================================
